---- MODULE Spec2Model ----
(***************************************************************************)
(* Model of src/src/filter2d.py: the three plane filters (fourier2dThZ,    *)
(* gauss2dThZ, box2dThZ) and the three volume filters (fourier2d, gauss2d, *)
(* box2d) that run one plane filter per radial index through               *)
(* joblib.Parallel.                                                        *)
(*                                                                         *)
(* Units.  Lengths (radii, z, filter widths) are integers in thousandths   *)
(* of the unit length, so the reference radius 0.986 is 986.  Angles are   *)
(* integers in angle units.  Arrays are sequences, index i of the code is  *)
(* index i+1 here.                                                         *)
(*                                                                         *)
(* Reals.  A wavenumber is an exact rational <<num, den>>.  A kernel value  *)
(* is exact where the real value is exactly 0 or 1 and a symbolic record   *)
(* (exp or sinc of an exact rational argument) otherwise.  Plane samples   *)
(* are integers, or real elements of the ring Z[zeta] (the samples of a    *)
(* sinusoid), and the discrete Fourier transform is computed exactly in    *)
(* Z[zeta]: zeta = exp(2 pi i / 12) for axis lengths dividing 12, and      *)
(* zeta = exp(2 pi i / 8) for the other axis lengths dividing 8.           *)
(* Floating-point rounding is not modelled.                                *)
(***************************************************************************)
EXTENDS Integers, Sequences, FiniteSets, TLC

(***************************************************************************)
(* Bounds of the model                                                     *)
(***************************************************************************)
\* largest number of radial planes len(r)
MaxR == 2
\* largest multiprocessing.cpu_count()
MaxJobs == 2
\* largest len(th), len(z) offered to the plane filters
MaxLen == 5

(***************************************************************************)
(* Integer helpers                                                         *)
(***************************************************************************)
Abs(x) == IF x < 0 THEN -x ELSE x

Sgn(x) == IF x < 0 THEN -1 ELSE IF x = 0 THEN 0 ELSE 1

RECURSIVE Gcd(_, _)
Gcd(a, b) == IF b = 0 THEN a ELSE Gcd(b, a % b)

\* the rational p/q (q > 0) in lowest terms
Ratio(p, q) ==
    LET g == Gcd(Abs(p), q)
    IN  <<p \div g, q \div g>>

(***************************************************************************)
(* Kernel values                                                           *)
(***************************************************************************)
One == [fn |-> "const", p |-> 1, q |-> 1]

Zero == [fn |-> "const", p |-> 0, q |-> 1]

\* product of two kernel values, as np.outer forms it
KMul(a, b) ==
    IF a = Zero \/ b = Zero THEN Zero
    ELSE IF a = One THEN b
    ELSE IF b = One THEN a
    ELSE [fn |-> "prod", l |-> a, r |-> b]

(***************************************************************************)
(* Sample spacing and wavenumbers                                          *)
(***************************************************************************)
\* fault variant of Spacing: a one-point vector gets unit spacing instead of raising
SpacingDefaulted(th, z, rPos) ==
    [ok |-> Len(th) >= 1 /\ Len(z) >= 1,
     deltaTh |-> IF Len(th) >= 2 THEN (th[2] - th[1]) * rPos ELSE rPos,
     deltaZ |-> IF Len(z) >= 2 THEN z[2] - z[1] ELSE 1]

\* fault variant of Spacing: deltaTh is the angle th[1]-th[0], not the arc length
SpacingNoRadius(th, z, rPos) ==
    IF Len(th) < 2 \/ Len(z) < 2
    THEN [ok |-> FALSE, deltaTh |-> 0, deltaZ |-> 0]
    ELSE [ok |-> TRUE, deltaTh |-> th[2] - th[1], deltaZ |-> z[2] - z[1]]

\* deltaTh = (th[1]-th[0])*rPos; deltaZ = (z[1]-z[0]).  th[1] or z[1] of a vector
\* shorter than 2 raises IndexError: ok is FALSE
Spacing(th, z, rPos) ==
    IF Len(th) < 2 \/ Len(z) < 2
    THEN [ok |-> FALSE, deltaTh |-> 0, deltaZ |-> 0]
    ELSE [ok |-> TRUE, deltaTh |-> (th[2] - th[1]) * rPos, deltaZ |-> z[2] - z[1]]

\* fault variant of FftFreqMode: the modes in centred order, the most negative first
FftFreqCentered(n, i) == i - (n \div 2)

\* mode number at index i (0-based) of np.fft.fftfreq(n, d)

FftFreqMode(n, i) == IF i <= (n - 1) \div 2 THEN i ELSE i - n

\* np.fft.fftfreq(n, d): cycles per length, entry i+1 is mode/(n*d)
FftFreq(n, d) == [i \in 1..n |-> <<FftFreqMode(n, i - 1), n * d>>]

(***************************************************************************)
(* 1d kernels                                                              *)
(***************************************************************************)
\* fault variant of CutoffSign: kappaC - kappa, without abs
CutoffSignNoAbs(k, lambda) ==
    IF lambda = 0 THEN 1
    ELSE IF lambda < 0 THEN -1
    ELSE Sgn(k[2] - 2 * k[1] * lambda)

\* fault variant of CutoffSign: the operands of the subtraction swapped
CutoffSignSwapped(k, lambda) ==
    IF lambda = 0 THEN -1
    ELSE IF lambda < 0 THEN 1
    ELSE Sgn(2 * Abs(k[1]) * lambda - k[2])

\* fault variant of CutoffSign: the cut-off wavenumber is 2*pi/lambda
CutoffSignFullPeriod(k, lambda) ==
    IF lambda = 0 THEN 1
    ELSE IF lambda < 0 THEN -1
    ELSE Sgn(k[2] - Abs(k[1]) * lambda)

\* sign of kappaC - abs(kappa), kappaC = pi/lambda, kappa = 2*pi*k, k = m/nd
\* (lambda = 0 is a numpy scalar here: pi/0 is inf)
CutoffSign(k, lambda) ==
    IF lambda = 0 THEN 1
    ELSE IF lambda < 0 THEN -1
    ELSE Sgn(k[2] - 2 * Abs(k[1]) * lambda)

\* fault variant of Heaviside: the step excludes its boundary
HeavisideStrict(s, x2) == IF s > 0 THEN One ELSE Zero

\* np.heaviside(x1, x2) from the sign of x1

Heaviside(s, x2) == IF s < 0 THEN Zero ELSE IF s = 0 THEN x2 ELSE One

\* fault variant of StepKernel: np.heaviside(kappaC-abs(kappa), 0.5)
StepKernelHalf(k, lambda) ==
    [i \in 1..Len(k) |->
        Heaviside(CutoffSign(k[i], lambda), [fn |-> "const", p |-> 1, q |-> 2])]

\* np.heaviside(kappaC-abs(kappa), 1)
StepKernel(k, lambda) ==
    [i \in 1..Len(k) |-> Heaviside(CutoffSign(k[i], lambda), One)]

\* np.exp((kappa*lambda)**2.0/-24.0): exp(-pi^2 * p/q), p/q = (2 m lambda)^2 / (24 nd^2)
GaussValue(k, lambda) ==
    LET a == Ratio((2 * k[1] * lambda) * (2 * k[1] * lambda), 24 * k[2] * k[2])
    IN  IF a[1] = 0 THEN One ELSE [fn |-> "exp", p |-> a[1], q |-> a[2]]

GaussKernel(k, lambda) == [i \in 1..Len(k) |-> GaussValue(k[i], lambda)]

\* fault variant of SincValue: np.sinc(kappa*lambda), the angular wavenumber
\* kappa = 2 pi k in place of k: sin(pi x)/(pi x) at x = 2 pi m lambda / nd, which
\* is no integer unless it is 0
SincValueAngular(k, lambda) ==
    LET a == Ratio(Abs(2 * k[1] * lambda), k[2])
    IN  IF a[1] = 0 THEN One ELSE [fn |-> "sincpi", p |-> a[1], q |-> a[2]]

\* np.sinc(k*lambda): sin(pi x)/(pi x), x = m lambda / nd, an even function of x,
\* 1 at x = 0 and 0 at every other integer x (where floating point leaves a
\* value of the order of 1e-17)
SincValue(k, lambda) ==
    LET a == Ratio(Abs(k[1] * lambda), k[2])
    IN  IF a[1] = 0 THEN One
        ELSE IF a[2] = 1 THEN Zero
        ELSE [fn |-> "sinc", p |-> a[1], q |-> a[2]]

SincKernel(k, lambda) == [i \in 1..Len(k) |-> SincValue(k[i], lambda)]

\* fault variant of Outer: gZ left out of the 2d kernel
OuterFirstOnly(gTh, gZ) ==
    [i \in 1..Len(gTh) |-> [j \in 1..Len(gZ) |-> gTh[i]]]

\* np.outer(gTh, gZ)
Outer(gTh, gZ) ==
    [i \in 1..Len(gTh) |-> [j \in 1..Len(gZ) |-> KMul(gTh[i], gZ[j])]]

(***************************************************************************)
(* Exact complex arithmetic in Z[zeta], zeta = exp(2 pi i / M), M = 12 or  *)
(* M = 8: <<a0, a1, a2, a3>> is a0 + a1 zeta + a2 zeta^2 + a3 zeta^3, with  *)
(* zeta^4 = zeta^2 - 1 for M = 12 and zeta^4 = -1 for M = 8.               *)
(***************************************************************************)
\* the order M of zeta for a transform of shape (nth, nz)
RingOrder(nth, nz) == IF 12 % nth = 0 /\ 12 % nz = 0 THEN 12 ELSE 8

CZero == <<0, 0, 0, 0>>

CInt(n) == <<n, 0, 0, 0>>

CAdd(x, y) == <<x[1] + y[1], x[2] + y[2], x[3] + y[3], x[4] + y[4]>>

CMulZeta(x, M) ==
    IF M = 12 THEN <<-x[4], x[1], x[2] + x[4], x[3]>> ELSE <<-x[4], x[1], x[2], x[3]>>

RECURSIVE CMulRoot(_, _, _)
CMulRoot(x, e, M) == IF e = 0 THEN x ELSE CMulRoot(CMulZeta(x, M), e - 1, M)

\* a sample as a complex number: an integer (dtype "int"), or a real number
\* given as an element of the ring (dtype "ring")
CSample(s, dtype) == IF dtype = "int" THEN CInt(s) ELSE s

\* the array with the elements of f, each computed once
Array(f) == f \o <<>>

RECURSIVE CSum(_, _)
CSum(f, n) == IF n = 0 THEN CZero ELSE CAdd(CSum(f, n - 1), f[n])

\* a real number (p + q sqrt(3))/s for M = 12, (p + q sqrt(2))/s for M = 8,
\* in lowest terms, s > 0
Real3(p, q, s) ==
    LET g == Gcd(Gcd(Abs(p), Abs(q)), s)
    IN  <<p \div g, q \div g, s \div g>>

\* the real part of x/n.  M = 12: Re(zeta) = sqrt(3)/2, Re(zeta^2) = 1/2,
\* Re(zeta^3) = 0.  M = 8: Re(zeta) = sqrt(2)/2, Re(zeta^2) = 0, Re(zeta^3) = -sqrt(2)/2
RealPart(x, n, M) ==
    IF M = 12 THEN Real3(2 * x[1] + x[3], x[2], 2 * n)
    ELSE Real3(2 * x[1], x[2] - x[4], 2 * n)

\* the discrete Fourier sum of a vector x of length N (N divides M):
\* entry k is the sum over n of x[n] * exp(sgn * 2 pi i * k n / N)
DftSum(x, sgn, M) ==
    LET N == Len(x)
    IN  Array([k \in 1..N |->
            CSum([n \in 1..N |->
                     CMulRoot(x[n], (sgn * (k - 1) * (n - 1) * (M \div N)) % M, M)],
                 N)])

\* the Fourier sums over both axes of a matrix (rows along z, then columns along th)
DftSum2(m, sgn, M) ==
    LET nth == Len(m)
        nz == Len(m[1])
        rows == Array([a \in 1..nth |-> DftSum(m[a], sgn, M)])
        cols == Array([b \in 1..nz |-> DftSum([a \in 1..nth |-> rows[a][b]], sgn, M)])
    IN  Array([a \in 1..nth |-> Array([b \in 1..nz |-> cols[b][a]])])

\* np.fft.fft2(u) of a plane of real samples
Fft2(u, M) ==
    DftSum2([a \in 1..Len(u.v) |-> [b \in 1..Len(u.v[1]) |-> CSample(u.v[a][b], u.dtype)]],
            -1, M)

\* np.fft.ifft2(Y).real of a spectrum with exact entries
Ifft2Real(Y, M) ==
    LET nth == Len(Y)
        nz == Len(Y[1])
        s == DftSum2(Y, 1, M)
    IN  [a \in 1..nth |-> [b \in 1..nz |-> RealPart(s[a][b], nth * nz, M)]]

(***************************************************************************)
(* Planes and plane filter results                                         *)
(***************************************************************************)
\* a plane: [shape |-> <<uth, uz>>, dtype |-> "int", v |-> uth rows of uz integers],
\* or with dtype "ring" and real elements of the ring as samples
\* a plane filter ends with a record: status "ok" or the exception raised,
\* stage = the statement group it reached, and when ok the returned plane:
\* repr "samples" (v = exact real samples) or "ifft2" (v = the spectrum
\* entries [x, g], the plane being the real inverse transform of x*g).
Raised(exc, stage) ==
    [status |-> exc, stage |-> stage, shape |-> <<>>, repr |-> "none", v |-> <<>>]

Returned(shape, repr, v) ==
    [status |-> "ok", stage |-> "return", shape |-> shape, repr |-> repr, v |-> v]

\* numpy broadcasting of fft2(u), shape (uth, uz), against g2d, shape (nth, nz)
Broadcasts(ushape, nth, nz) ==
    /\ ushape[1] >= 1 /\ ushape[2] >= 1
    /\ ushape[1] = nth \/ ushape[1] = 1
    /\ ushape[2] = nz \/ ushape[2] = 1

\* one entry of fft2(u) * g2d
SpecMul(x, g) ==
    IF x = CZero \/ g = Zero THEN [x |-> CZero, g |-> One] ELSE [x |-> x, g |-> g]

\* uFiltered = np.fft.ifft2(np.fft.fft2(u) * g2d); return uFiltered.real
ApplyKernel(u, g2d) ==
    LET nth == Len(g2d)
        nz == Len(g2d[1])
    IN  IF ~Broadcasts(u.shape, nth, nz) THEN Raised("ValueError", "transform")
        ELSE
          LET M == RingOrder(nth, nz)
              X == Fft2(u, M)
              Y == Array([a \in 1..nth |-> Array([b \in 1..nz |->
                       SpecMul(X[IF u.shape[1] = 1 THEN 1 ELSE a]
                                [IF u.shape[2] = 1 THEN 1 ELSE b], g2d[a][b])])])
              exact == \A a \in 1..nth : \A b \in 1..nz : Y[a][b].g = One
          IN  IF exact
              THEN Returned(<<nth, nz>>, "samples",
                            Ifft2Real([a \in 1..nth |-> [b \in 1..nz |-> Y[a][b].x]], M))
              ELSE Returned(<<nth, nz>>, "ifft2", Y)

(***************************************************************************)
(* The 2d kernels g2d of the three families, for a defined spacing sp       *)
(***************************************************************************)
\* lines 41-56
g2dFourier(sp, lambdaTh, lambdaZ, th, z) ==
    LET kTh == FftFreq(Len(th), sp.deltaTh)
        kZ == FftFreq(Len(z), sp.deltaZ)
    IN  Outer(StepKernel(kTh, lambdaTh), StepKernel(kZ, lambdaZ))

\* lines 122-132
g2dGauss(sp, lambdaTh, lambdaZ, th, z) ==
    LET kTh == FftFreq(Len(th), sp.deltaTh)
        kZ == FftFreq(Len(z), sp.deltaZ)
    IN  Outer(GaussKernel(kTh, lambdaTh), GaussKernel(kZ, lambdaZ))

\* lines 199-209
g2dBox(sp, lambdaTh, lambdaZ, th, z) ==
    LET kTh == FftFreq(Len(th), sp.deltaTh)
        kZ == FftFreq(Len(z), sp.deltaZ)
    IN  Outer(SincKernel(kTh, lambdaTh), SincKernel(kZ, lambdaZ))

(***************************************************************************)
(* The plane filters.  np is TRUE when the widths are numpy scalars         *)
(* (pi/0 is inf) and FALSE when they are Python numbers (pi/0 raises).      *)
(* The stages are the statement groups in source order: "spacing",          *)
(* "wavenumber", "cutoff", "kernel", "transform", "return".                 *)
(***************************************************************************)
fourier2dThZ(u, rPos, lambdaTh, lambdaZ, th, z, rect, np) ==
    LET sp == Spacing(th, z, rPos)
    IN  IF ~sp.ok THEN Raised("IndexError", "spacing")
        ELSE IF ~np /\ (lambdaTh = 0 \/ lambdaZ = 0)
        THEN Raised("ZeroDivisionError", "cutoff")
        ELSE IF rect # 1 THEN Raised("SystemExit", "kernel")
        ELSE ApplyKernel(u, g2dFourier(sp, lambdaTh, lambdaZ, th, z))

gauss2dThZ(u, rPos, lambdaTh, lambdaZ, th, z) ==
    LET sp == Spacing(th, z, rPos)
    IN  IF ~sp.ok THEN Raised("IndexError", "spacing")
        ELSE ApplyKernel(u, g2dGauss(sp, lambdaTh, lambdaZ, th, z))

box2dThZ(u, rPos, lambdaTh, lambdaZ, th, z) ==
    LET sp == Spacing(th, z, rPos)
    IN  IF ~sp.ok THEN Raised("IndexError", "spacing")
        ELSE ApplyKernel(u, g2dBox(sp, lambdaTh, lambdaZ, th, z))

(***************************************************************************)
(* Inputs of a call                                                        *)
(***************************************************************************)
VolumeFns == {"fourier2d", "gauss2d", "box2d"}

PlaneFns == {"fourier2dThZ", "gauss2dThZ", "box2dThZ"}

\* filter widths offered to the plane filters and to the volume filters
Widths == {-1000, 0, 986, 1972, 4000}

VolumeWidths == {-1000, 0, 1972}

\* grid lengths: len(th), len(z) for the volume filters, and for the plane filters
\* every length up to MaxLen for which the transform is exact (a divisor of 12)
ThLens == {1, 4}

ZLens == {1, 3}

PlaneLens == {n \in 0..MaxLen : n = 0 \/ 12 % n = 0}

\* a uniformly spaced grid vector of n points with spacing d
Grid(n, d) == [i \in 1..n |-> (i - 1) * d]

\* radii offered to the plane filters as rPos
PlaneRadii == {493, 986}

\* radial grid vectors: "grid" is 0.493, 0.986, ... and "ref" is 0.986 everywhere
RadiiKinds == {"grid", "ref"}

Radii(kind, nr) == [i \in 1..nr |-> IF kind = "grid" THEN 493 * i ELSE 986]

\* sample values: "const" planes are constant (a different constant per plane),
\* "ramp" planes vary along both axes, with modes that mix the two
FieldKinds == {"const", "ramp"}

VolumeFieldKinds == {"ramp"}

Sample(kind, i, a, b) == IF kind = "const" THEN 2 + i ELSE 10 * i + 3 * a + b * b + a * b

PlaneOf(kind, i, uth, uz) ==
    [shape |-> <<uth, uz>>, dtype |-> "int",
     v |-> [a \in 1..uth |-> [b \in 1..uz |-> Sample(kind, i, a, b)]]]

FieldOf(kind, un, uth, uz) ==
    [shape |-> <<un, uth, uz>>,
     v |-> [i \in 1..un |-> PlaneOf(kind, i, uth, uz).v]]

\* how the shape of u deviates from (len(r), len(th), len(z))
ShapeDevs == {"match", "fewer", "more", "thin", "wide"}

PlaneShapeDevs == {"match", "thin", "wide"}

FieldShape(dev, nr, nth, nz) ==
    CASE dev = "match" -> <<nr, nth, nz>>
      [] dev = "fewer" -> <<nr - 1, nth, nz>>
      [] dev = "more" -> <<nr + 1, nth, nz>>
      [] dev = "thin" -> <<nr, 1, nz>>
      [] dev = "wide" -> <<nr, nth, nz + 1>>

(***************************************************************************)
(* State                                                                   *)
(***************************************************************************)
VARIABLES
    call,       \* the function called and its arguments
    nJobs,      \* multiprocessing.cpu_count()
    pc,         \* "start", "parallel" (inside Parallel), "returned", "failed"
    uFiltered,  \* the local uFiltered of a volume filter, the plane a plane filter returns
    exc,        \* the exception that ended the call, "" when none
    iNext,      \* the next i of the generator "for i in range(len(r))"
    taskState,  \* per radial index: "pending", "queued", "running", "done", "raised"
    taskArgs,   \* per radial index: the arguments bound by delayed(...)
    taskOut,    \* per radial index: what the plane filter ended with
    finishOrder \* the radial indices in the order their tasks finished

vars == <<call, nJobs, pc, uFiltered, exc, iNext, taskState, taskArgs, taskOut, finishOrder>>

NoArray == [shape |-> <<>>, planes |-> <<>>]

NoArgs == [u |-> [shape |-> <<>>, dtype |-> "int", v |-> <<>>], rPos |-> 0]

NoResult == Raised("", "")

\* radial reference location of the volume filters, 0.986
rRef == 986

(***************************************************************************)
(* The volume filters                                                      *)
(***************************************************************************)
\* np.zeros((len(r), len(th), len(z)))
Zeros(nr, nth, nz) ==
    [shape |-> <<nr, nth, nz>>,
     planes |-> [i \in 1..nr |->
                    [repr |-> "samples",
                     v |-> [a \in 1..nth |-> [b \in 1..nz |-> <<0, 0, 1>>]]]]]

\* u[i,:,:], i 1-based here
Slice(u, i) == [shape |-> <<u.shape[2], u.shape[3]>>, dtype |-> "int", v |-> u.v[i]]

\* fault variant of BoundArgs: every task gets the first plane
BoundArgsFirst(c, i) == [u |-> Slice(c.u, 1), rPos |-> rRef]

\* variant of BoundArgs: the commented-out lines 89, 165, 240, rPos = r[i]
BoundArgsTrue(c, i) == [u |-> Slice(c.u, i), rPos |-> c.r[i]]

\* the arguments delayed(...) binds for radial index i: (u[i,:,:], rRef, ...)

BoundArgs(c, i) == [u |-> Slice(c.u, i), rPos |-> rRef]

\* the plane filter a volume filter hands to delayed(...), run on bound arguments
RunPlaneFilter(c, a) ==
    CASE c.fn \in {"fourier2d", "fourier2dThZ"} ->
             fourier2dThZ(a.u, a.rPos, c.lambdaTh, c.lambdaZ, c.th, c.z, c.rect, c.np)
      [] c.fn \in {"gauss2d", "gauss2dThZ"} ->
             gauss2dThZ(a.u, a.rPos, c.lambdaTh, c.lambdaZ, c.th, c.z)
      [] c.fn \in {"box2d", "box2dThZ"} ->
             box2dThZ(a.u, a.rPos, c.lambdaTh, c.lambdaZ, c.th, c.z)

\* joblib dispatches 2*n_jobs tasks ahead; with n_jobs = 1 it runs them one by one
PreDispatch(n) == IF n = 1 THEN 1 ELSE 2 * n

InFlight == Cardinality({i \in 1..Len(taskState) : taskState[i] \in {"queued", "running"}})

Running == Cardinality({i \in 1..Len(taskState) : taskState[i] = "running"})

\* fault variant of Completed: a task that raised counts as finished
CompletedOrRaised ==
    /\ iNext = Len(call.r)
    /\ \A i \in 1..Len(taskState) : taskState[i] \in {"done", "raised"}

\* Parallel(...) has every result: the generator is exhausted and every task returned
Completed ==
    /\ iNext = Len(call.r)
    /\ \A i \in 1..Len(taskState) : taskState[i] = "done"

\* fault variant of NpArray: the planes in the order the tasks finished
NpArrayByFinish(outs) ==
    [shape |-> IF Len(outs) = 0 THEN <<0>> ELSE <<Len(outs)>> \o outs[1].shape,
     planes |-> [i \in 1..Len(outs) |->
                    [repr |-> outs[finishOrder[i]].repr, v |-> outs[finishOrder[i]].v]]]

\* np.array(list of the planes returned, in the order of the generator):
\* an empty list gives shape (0,)
NpArray(outs) ==
    [shape |-> IF Len(outs) = 0 THEN <<0>> ELSE <<Len(outs)>> \o outs[1].shape,
     planes |-> [i \in 1..Len(outs) |-> [repr |-> outs[i].repr, v |-> outs[i].v]]]

\* fault variant of EnterVolume: fourier2d tests rect before it starts Parallel
EnterVolumeChecked(f) ==
    /\ pc = "start"
    /\ call.fn = f
    /\ IF f = "fourier2d" /\ call.rect # 1
       THEN pc' = "failed" /\ exc' = "SystemExit" /\ UNCHANGED uFiltered
       ELSE /\ uFiltered' = Zeros(Len(call.r), Len(call.th), Len(call.z))
            /\ pc' = "parallel"
            /\ UNCHANGED exc
    /\ UNCHANGED <<call, nJobs, iNext, taskState, taskArgs, taskOut, finishOrder>>

\* lines 85-86 (161-162, 236-237): uFiltered = np.zeros(...), then Parallel starts
EnterVolume(f) ==
    /\ pc = "start"
    /\ call.fn = f
    /\ uFiltered' = Zeros(Len(call.r), Len(call.th), Len(call.z))
    /\ pc' = "parallel"
    /\ UNCHANGED <<call, nJobs, exc, iNext, taskState, taskArgs, taskOut, finishOrder>>

fourier2d == EnterVolume("fourier2d")

gauss2d == EnterVolume("gauss2d")

box2d == EnterVolume("box2d")

\* the generator yields delayed(planeFilter)(u[i,:,:], rRef, ...) for the next i
Dispatch ==
    /\ pc = "parallel"
    /\ iNext < Len(call.r)
    /\ InFlight < PreDispatch(nJobs)
    /\ iNext < call.u.shape[1]
    /\ taskArgs' = [taskArgs EXCEPT ![iNext + 1] = BoundArgs(call, iNext + 1)]
    /\ taskState' = [taskState EXCEPT ![iNext + 1] = "queued"]
    /\ iNext' = iNext + 1
    /\ UNCHANGED <<call, nJobs, pc, uFiltered, exc, taskOut, finishOrder>>

\* u[i,:,:] with i beyond the first axis of u raises IndexError in the caller
DispatchIndexError ==
    /\ pc = "parallel"
    /\ iNext < Len(call.r)
    /\ InFlight < PreDispatch(nJobs)
    /\ iNext >= call.u.shape[1]
    /\ pc' = "failed"
    /\ exc' = "IndexError"
    /\ UNCHANGED <<call, nJobs, uFiltered, iNext, taskState, taskArgs, taskOut, finishOrder>>

\* a free worker takes the oldest queued task
TaskStart(i) ==
    /\ pc = "parallel"
    /\ taskState[i] = "queued"
    /\ \A j \in 1..(i - 1) : taskState[j] # "queued"
    /\ Running < nJobs
    /\ taskState' = [taskState EXCEPT ![i] = "running"]
    /\ UNCHANGED <<call, nJobs, pc, uFiltered, exc, iNext, taskArgs, taskOut, finishOrder>>

\* the worker runs the plane filter to its end: a plane, or an exception
TaskFinish(i) ==
    /\ pc = "parallel"
    /\ taskState[i] = "running"
    /\ LET res == RunPlaneFilter(call, taskArgs[i])
       IN  /\ taskOut' = [taskOut EXCEPT ![i] = res]
           /\ taskState' = [taskState EXCEPT ![i] = IF res.status = "ok" THEN "done" ELSE "raised"]
    /\ finishOrder' = Append(finishOrder, i)
    /\ UNCHANGED <<call, nJobs, pc, uFiltered, exc, iNext, taskArgs>>

\* Parallel re-raises a task's exception in the caller
Reraise(i) ==
    /\ pc = "parallel"
    /\ taskState[i] = "raised"
    /\ pc' = "failed"
    /\ exc' = taskOut[i].status
    /\ UNCHANGED <<call, nJobs, uFiltered, iNext, taskState, taskArgs, taskOut, finishOrder>>

\* line 93 (169, 244): uFiltered = np.array(Parallel(...)(...)); return uFiltered
ReturnVolume ==
    /\ pc = "parallel"
    /\ Completed
    /\ uFiltered' = NpArray(taskOut)
    /\ pc' = "returned"
    /\ UNCHANGED <<call, nJobs, exc, iNext, taskState, taskArgs, taskOut, finishOrder>>

\* a call of a volume filter: the widths are Python numbers or numpy scalars
\* (np matters only where a width is 0 and the filter divides by it)
Init ==
    \E f \in VolumeFns, nr \in 0..MaxR, rk \in RadiiKinds, nth \in ThLens, nz \in ZLens,
       lt \in VolumeWidths, lz \in VolumeWidths, rc \in {0, 1}, npf \in BOOLEAN,
       dev \in ShapeDevs, kind \in VolumeFieldKinds, nj \in 1..MaxJobs :
        LET shape == FieldShape(dev, nr, nth, nz)
        IN  /\ shape[1] >= 0
            /\ f # "fourier2d" => rc = 1
            /\ npf => f = "fourier2d" /\ (lt = 0 \/ lz = 0)
            /\ call = [fn |-> f, u |-> FieldOf(kind, shape[1], shape[2], shape[3]),
                       r |-> Radii(rk, nr), th |-> Grid(nth, 1), z |-> Grid(nz, 1000),
                       lambdaTh |-> lt, lambdaZ |-> lz, rect |-> rc, np |-> npf]
            /\ nJobs = nj
            /\ pc = "start"
            /\ uFiltered = NoArray
            /\ exc = ""
            /\ iNext = 0
            /\ taskState = [i \in 1..nr |-> "pending"]
            /\ taskArgs = [i \in 1..nr |-> NoArgs]
            /\ taskOut = [i \in 1..nr |-> NoResult]
            /\ finishOrder = <<>>

Next ==
    \/ fourier2d
    \/ gauss2d
    \/ box2d
    \/ Dispatch
    \/ DispatchIndexError
    \/ \E i \in 1..Len(taskState) : TaskStart(i)
    \/ \E i \in 1..Len(taskState) : TaskFinish(i)
    \/ \E i \in 1..Len(taskState) : Reraise(i)
    \/ ReturnVolume

Spec == Init /\ [][Next]_vars

(***************************************************************************)
(* Direct calls of the plane filters                                       *)
(***************************************************************************)
\* the call runs from its first statement to its return or its exception
CallPlane(f) ==
    /\ pc = "start"
    /\ call.fn = f
    /\ LET res == RunPlaneFilter(call, [u |-> call.u, rPos |-> call.rPos])
       IN  /\ taskOut' = <<res>>
           /\ pc' = IF res.status = "ok" THEN "returned" ELSE "failed"
           /\ exc' = IF res.status = "ok" THEN "" ELSE res.status
    /\ UNCHANGED <<call, nJobs, uFiltered, iNext, taskState, taskArgs, finishOrder>>

CallFourier2dThZ == CallPlane("fourier2dThZ")

CallGauss2dThZ == CallPlane("gauss2dThZ")

CallBox2dThZ == CallPlane("box2dThZ")

PlaneInit ==
    \E f \in PlaneFns, rp \in PlaneRadii, nth \in PlaneLens, nz \in PlaneLens,
       lt \in Widths, lz \in Widths, rc \in {0, 1}, npf \in BOOLEAN,
       dev \in PlaneShapeDevs, kind \in FieldKinds :
        LET shape == FieldShape(dev, 1, nth, nz)
        IN  /\ f # "fourier2dThZ" => rc = 1
            /\ npf => f = "fourier2dThZ" /\ (lt = 0 \/ lz = 0)
            /\ call = [fn |-> f, u |-> PlaneOf(kind, 1, shape[2], shape[3]), rPos |-> rp,
                       th |-> Grid(nth, 1), z |-> Grid(nz, 1000),
                       lambdaTh |-> lt, lambdaZ |-> lz, rect |-> rc, np |-> npf]
            /\ nJobs = 1
            /\ pc = "start"
            /\ uFiltered = NoArray
            /\ exc = ""
            /\ iNext = 0
            /\ taskState = <<>>
            /\ taskArgs = <<>>
            /\ taskOut = <<NoResult>>
            /\ finishOrder = <<>>

PlaneNext ==
    \/ CallFourier2dThZ
    \/ CallGauss2dThZ
    \/ CallBox2dThZ

PlaneSpec == PlaneInit /\ [][PlaneNext]_vars

(***************************************************************************)
(* Calls of the sharp cut-off plane filter on a sinusoid: th of 8 points   *)
(* over [0, 2 pi), z of 8 points over [0, 1), rPos = 1.0.  One angle unit  *)
(* is pi/4 here, so that azimuthal lengths (deltaTh, lambdaTh) count       *)
(* pi/4000 and the circumference 2 pi rPos is 8000; axial lengths count    *)
(* thousandths.                                                            *)
(***************************************************************************)
\* azimuthal widths around half the circumference and around the circumference,
\* and one below the sample spacing
SineWidthsTh == {999, 3999, 4000, 4001, 7999, 8001}

\* axial widths: the sample spacing, just above it, and the domain length
SineWidthsZ == {125, 126, 1000}

\* mode numbers of the sinusoid along th and along z
SineModesTh == {1, 4}

SineModesZ == {0, 1}

SineShifts == {0, 1}

\* azimuthal mode number of a second sinusoid added to the first, 0 for none
SineOvertones == {0, 3}

\* 2 cos(2 pi k / 8) = zeta^k + zeta^(-k), zeta = exp(2 pi i / 8)
TwoCos(k) == CAdd(CMulRoot(CInt(1), k % 8, 8), CMulRoot(CInt(1), (8 - (k % 8)) % 8, 8))

\* the plane 2 cos(2 pi (mth a + mz b + shift) / 8) on the 8 x 8 grid, plus
\* 2 cos(2 pi ov a / 8) when ov is not 0
SinePlane(mth, mz, shift, ov) ==
    [shape |-> <<8, 8>>, dtype |-> "ring",
     v |-> [a \in 1..8 |-> [b \in 1..8 |->
              CAdd(TwoCos(mth * (a - 1) + mz * (b - 1) + shift),
                   IF ov = 0 THEN CZero ELSE TwoCos(ov * (a - 1)))]]]

SineInit ==
    \E lt \in SineWidthsTh, lz \in SineWidthsZ, mth \in SineModesTh, mz \in SineModesZ,
       sh \in SineShifts, ov \in SineOvertones :
        /\ call = [fn |-> "fourier2dThZ", u |-> SinePlane(mth, mz, sh, ov), rPos |-> 1000,
                   th |-> Grid(8, 1), z |-> Grid(8, 125),
                   lambdaTh |-> lt, lambdaZ |-> lz, rect |-> 1, np |-> FALSE]
        /\ nJobs = 1
        /\ pc = "start"
        /\ uFiltered = NoArray
        /\ exc = ""
        /\ iNext = 0
        /\ taskState = <<>>
        /\ taskArgs = <<>>
        /\ taskOut = <<NoResult>>
        /\ finishOrder = <<>>

SineNext == CallFourier2dThZ

SineSpec == SineInit /\ [][SineNext]_vars

(***************************************************************************)
(* Vocabulary of the properties                                            *)
(***************************************************************************)
PositiveWidths(c) == c.lambdaTh > 0 /\ c.lambdaZ > 0

GridDefined(c) == Len(c.th) >= 2 /\ Len(c.z) >= 2

RectangularKernel(c) == c.rect = 1

\* the field of a volume call has the shape of the grid
FieldMatchesGrid(c) == c.u.shape = <<Len(c.r), Len(c.th), Len(c.z)>>

\* the plane of a plane call has the shape of the grid
PlaneMatchesGrid(c) == c.u.shape = <<Len(c.th), Len(c.z)>>

ValidVolumeCall(c) ==
    PositiveWidths(c) /\ GridDefined(c) /\ RectangularKernel(c) /\ FieldMatchesGrid(c)

ValidPlaneCall(c) ==
    PositiveWidths(c) /\ GridDefined(c) /\ RectangularKernel(c) /\ PlaneMatchesGrid(c)

\* a task of radial index i has been scheduled (bound and queued) or has gone further
Scheduled(i) == taskState[i] # "pending"

\* the stages of a plane filter that precede the transform of line 62
BeforeTransform == {"spacing", "wavenumber", "cutoff", "kernel"}

\* the stages of a plane filter that precede the construction of g2d
BeforeKernel == {"spacing", "wavenumber", "cutoff"}

\* what a direct call of the plane filter on u[i] with radius rPos gives
DirectPlane(i, rPos) == RunPlaneFilter(call, [u |-> Slice(call.u, i), rPos |-> rPos])

\* the 2d kernel the plane filter of a call builds on a defined grid
Kernel2d(c, rPos) ==
    LET sp == Spacing(c.th, c.z, rPos)
    IN  CASE c.fn \in {"fourier2d", "fourier2dThZ"} ->
                 g2dFourier(sp, c.lambdaTh, c.lambdaZ, c.th, c.z)
          [] c.fn \in {"gauss2d", "gauss2dThZ"} ->
                 g2dGauss(sp, c.lambdaTh, c.lambdaZ, c.th, c.z)
          [] c.fn \in {"box2d", "box2dThZ"} ->
                 g2dBox(sp, c.lambdaTh, c.lambdaZ, c.th, c.z)

\* every sample of the plane has the same value
ConstantPlane(u) ==
    \A a \in 1..u.shape[1] : \A b \in 1..u.shape[2] : u.v[a][b] = u.v[1][1]

\* the returned samples are exactly the samples of the plane u
SamplesOf(u) == [a \in 1..u.shape[1] |-> [b \in 1..u.shape[2] |-> <<u.v[a][b], 0, 1>>]]

\* the samples of a plane of dtype "ring" as exact reals
RingSamplesOf(u, M) ==
    [a \in 1..u.shape[1] |-> [b \in 1..u.shape[2] |-> RealPart(u.v[a][b], 1, M)]]

\* a plane of zeros
ZeroSamples(shape) == [a \in 1..shape[1] |-> [b \in 1..shape[2] |-> <<0, 0, 1>>]]

\* the plane is a sinusoid at the lowest non-zero azimuthal wavenumber, constant along z
LowestAzimuthal(u) == \E sh \in SineShifts : u = SinePlane(1, 0, sh, 0)

\* the length of the th axis: the circumference, the period of azimuthal mode 1
Circumference(c) == Len(c.th) * Spacing(c.th, c.z, c.rPos).deltaTh

\* the 1d kernels of the sharp cut-off filter on the grid of call c, for a width
StepKernelTh(c, lambda) ==
    StepKernel(FftFreq(Len(c.th), Spacing(c.th, c.z, c.rPos).deltaTh), lambda)

StepKernelZ(c, lambda) ==
    StepKernel(FftFreq(Len(c.z), Spacing(c.th, c.z, c.rPos).deltaZ), lambda)

\* the 1d kernels gTh and gZ that the plane filter of call c builds
Kernel1d(c, k, lambda) ==
    CASE c.fn \in {"fourier2d", "fourier2dThZ"} -> StepKernel(k, lambda)
      [] c.fn \in {"gauss2d", "gauss2dThZ"} -> GaussKernel(k, lambda)
      [] c.fn \in {"box2d", "box2dThZ"} -> SincKernel(k, lambda)

Kernel1dTh(c, rPos) ==
    Kernel1d(c, FftFreq(Len(c.th), Spacing(c.th, c.z, rPos).deltaTh), c.lambdaTh)

Kernel1dZ(c, rPos) ==
    Kernel1d(c, FftFreq(Len(c.z), Spacing(c.th, c.z, rPos).deltaZ), c.lambdaZ)

\* a 1d kernel takes the same value at index i and at index N-i (0-based), 0 < i < N
EvenKernel(g) == \A i \in 1..(Len(g) - 1) : g[i + 1] = g[Len(g) - i + 1]

\* a kernel value that is a non-negative real: 0, 1, or exp(-pi^2 p/q) with p/q > 0
NonNegativeValue(x) == x \in {Zero, One} \/ (x.fn = "exp" /\ x.p > 0 /\ x.q > 0)

\* mode number m at an index of an axis of n points: the wavenumber there is
\* m/(n d) cycles per length, 2 pi m/(n d) radians per length
ModeAt(n, i) == FftFreqMode(n, i - 1)

\* |2 pi m/(n d)| <= pi/lambda for a positive width, in integers
WithinCutoff(m, lambda, n, d) == 2 * Abs(m) * lambda <= n * d

\* |2 pi m/(n d)| = pi/lambda: the mode lies on the cut-off
OnCutoff(m, lambda, n, d) == 2 * Abs(m) * lambda = n * d

\* the indices a 1d kernel passes
Passed(g) == {i \in 1..Len(g) : g[i] = One}

\* the radicand r of the exact reals (p + q sqrt(r))/s of a plane of this shape
Radicand(shape) == IF RingOrder(shape[1], shape[2]) = 12 THEN 3 ELSE 2

\* D^2 x^2 as <<A, B>> = A + B sqrt(r), for a sample x = <<p, q, s>>, s dividing D
SquareScaled(x, D, r) ==
    LET P == x[1] * (D \div x[3])
        Q == x[2] * (D \div x[3])
    IN  <<P * P + r * Q * Q, 2 * P * Q>>

\* D^2 times the sum of the squares of the first n samples (row by row) of v
RECURSIVE SumSquares(_, _, _, _, _)
SumSquares(v, nz, n, D, r) ==
    IF n = 0 THEN <<0, 0>>
    ELSE LET rest == SumSquares(v, nz, n - 1, D, r)
             sq == SquareScaled(v[((n - 1) \div nz) + 1][((n - 1) % nz) + 1], D, r)
         IN  <<rest[1] + sq[1], rest[2] + sq[2]>>

\* the total power of a returned plane of exact samples: the sum of its squared
\* samples (by Parseval's identity the total spectral power divided by the
\* number of samples), scaled by D^2, D = 2 nth nz
Power(v, shape) ==
    SumSquares(v, shape[2], shape[1] * shape[2], 2 * shape[1] * shape[2], Radicand(shape))

\* a + b sqrt(r) >= 0
NonNegative(a, b, r) ==
    IF a >= 0 /\ b >= 0 THEN TRUE
    ELSE IF a <= 0 /\ b <= 0 THEN FALSE
    ELSE IF a >= 0 THEN a * a >= r * b * b
    ELSE r * b * b >= a * a

\* P1 <= P2 for two powers of planes of this shape
PowerLeq(P1, P2, shape) == NonNegative(P2[1] - P1[1], P2[2] - P1[2], Radicand(shape))

\* the sharp cut-off filter on the plane and grid of call c, with other widths
WithWidths(c, lambdaTh, lambdaZ) ==
    fourier2dThZ(c.u, c.rPos, lambdaTh, lambdaZ, c.th, c.z, c.rect, c.np)

\* every non-zero Fourier mode of the plane of call c is passed by its 2d kernel
BandLimited(c) ==
    LET g == Kernel2d(c, c.rPos)
        X == Fft2(c.u, RingOrder(Len(c.th), Len(c.z)))
    IN  \A a \in 1..Len(c.th) : \A b \in 1..Len(c.z) : X[a][b] # CZero => g[a][b] = One

\* D x for an exact real sample x = <<p, q, s>>, D = 2 nth nz a multiple of s
ScaledSample(x, D) == Real3(x[1] * D, x[2] * D, x[3])

\* D x as an element of the ring: sqrt(3) = 2 zeta - zeta^3 for M = 12,
\* sqrt(2) = zeta - zeta^3 for M = 8
ScaledRing(x, D, M) ==
    LET P == x[1] * (D \div x[3])
        Q == x[2] * (D \div x[3])
    IN  IF M = 12 THEN <<P, 2 * Q, 0, -Q>> ELSE <<P, Q, 0, -Q>>

\* D times a returned plane of exact samples, as a plane to filter again
ScaledPlane(res) ==
    LET nth == res.shape[1]
        nz == res.shape[2]
    IN  [shape |-> res.shape, dtype |-> "ring",
         v |-> [a \in 1..nth |-> [b \in 1..nz |->
                  ScaledRing(res.v[a][b], 2 * nth * nz, RingOrder(nth, nz))]]]

\* the call c with other values in its radial grid vector, of the same length
WithRadii(c, kind) == [c EXCEPT !.r = Radii(kind, Len(c.r))]

\* what the plane filters give for the planes of call c, with the arguments that
\* the given binding hands them
PlanesOf(c, Bind(_, _)) == [i \in 1..Len(c.r) |-> RunPlaneFilter(c, Bind(c, i))]

\* f[1] + ... + f[n] for integers
RECURSIVE SumTo(_, _)
SumTo(f, n) == IF n = 0 THEN 0 ELSE SumTo(f, n - 1) + f[n]

\* the sums of the samples of a plane along th (one per z index), along z (one
\* per th index), and over the plane
SumsAlongTh(u) ==
    [b \in 1..u.shape[2] |-> SumTo([a \in 1..u.shape[1] |-> u.v[a][b]], u.shape[1])]

SumsAlongZ(u) ==
    [a \in 1..u.shape[1] |-> SumTo(u.v[a], u.shape[2])]

SumOfPlane(u) == SumTo(SumsAlongZ(u), u.shape[1])

\* the transform of a vector of integers
DftOfInts(x, M) == DftSum([n \in 1..Len(x) |-> CInt(x[n])], -1, M)

\* a returned plane res of the plane u is u averaged along th and filtered along z
\* with the 1d kernel gZ: its spectrum has the azimuthal mode 0 only, and there
\* the transform of the sums along th times gZ; a plane of exact samples is then
\* the mean of u everywhere
AveragedAlongTh(res, u, gZ) ==
    LET nth == u.shape[1]
        nz == u.shape[2]
        M == RingOrder(nth, nz)
    IN  IF res.repr = "ifft2"
        THEN /\ \A i \in 2..nth : \A j \in 1..nz : res.v[i][j].x = CZero
             /\ \A j \in 1..nz : res.v[1][j] = SpecMul(DftOfInts(SumsAlongTh(u), M)[j], gZ[j])
        ELSE \A a \in 1..nth : \A b \in 1..nz :
                res.v[a][b] = Real3(SumOfPlane(u), 0, nth * nz)

\* the same along z, with the 1d kernel gTh of the other axis
AveragedAlongZ(res, u, gTh) ==
    LET nth == u.shape[1]
        nz == u.shape[2]
        M == RingOrder(nth, nz)
    IN  IF res.repr = "ifft2"
        THEN /\ \A i \in 1..nth : \A j \in 2..nz : res.v[i][j].x = CZero
             /\ \A i \in 1..nth : res.v[i][1] = SpecMul(DftOfInts(SumsAlongZ(u), M)[i], gTh[i])
        ELSE \A a \in 1..nth : \A b \in 1..nz :
                res.v[a][b] = Real3(SumOfPlane(u), 0, nth * nz)

(***************************************************************************)
(* Properties of the volume filters (Spec)                                 *)
(***************************************************************************)
\* C1: in a returned volume, plane i is exactly what the single-plane filter gives
\* for u[i] with the rPos of the volume filter, for every radial index i and
\* whatever the order in which the tasks started and finished.
C1_PlaneIndexPreserved ==
    pc = "returned" =>
        /\ Len(uFiltered.planes) = Len(call.r)
        /\ \A i \in 1..Len(call.r) :
              LET direct == DirectPlane(i, taskArgs[i].rPos)
              IN  /\ direct.status = "ok"
                  /\ uFiltered.planes[i] = [repr |-> direct.repr, v |-> direct.v]

\* C1 witness: a volume of two different planes returned after the task of the
\* second plane finished before the task of the first.
C1_Witness ==
    /\ pc = "returned"
    /\ Len(call.r) = 2
    /\ finishOrder = <<2, 1>>
    /\ uFiltered.planes[1] # uFiltered.planes[2]

\* C2: the kernel of plane i is built with rPos = r[i]; the volume filters have no
\* argument by which a caller could select the fixed reference radius.
C2_TruePerRadius ==
    \A i \in 1..Len(taskState) : Scheduled(i) => taskArgs[i].rPos = call.r[i]

\* C3: fourier2d with rect # 1 never returns an array.
C3_CircularKernelFails ==
    (call.fn = "fourier2d" /\ call.rect # 1) => pc # "returned"

\* C4: no per-plane task is scheduled in a run whose configuration is invalid.
C4_ValidatedBeforeScheduling ==
    \A i \in 1..Len(taskState) : Scheduled(i) => ValidVolumeCall(call)

\* C6: a field whose shape differs from (len(r), len(th), len(z)) is rejected
\* before any task is scheduled, and no volume is returned for it.
C6_ShapeMismatchRejected ==
    ~FieldMatchesGrid(call) =>
        /\ pc # "returned"
        /\ \A i \in 1..Len(taskState) : ~Scheduled(i)

\* C8: a call in which the filter of some plane raised never returns, and a
\* returned volume holds, for each of the len(r) radial indices, the plane its
\* own task returned.
C8_NoPartialVolume ==
    /\ (\E i \in 1..Len(taskState) : taskState[i] = "raised") => pc # "returned"
    /\ pc = "returned" =>
          /\ Len(uFiltered.planes) = Len(call.r)
          /\ \A i \in 1..Len(call.r) :
                /\ taskOut[i].status = "ok"
                /\ uFiltered.planes[i] = [repr |-> taskOut[i].repr, v |-> taskOut[i].v]

\* C8 witness: the filter of a plane raised in a call of two planes, the call
\* failed with that exception, and the zero-filled array was not returned.
C8_Witness ==
    /\ pc = "failed"
    /\ Len(call.r) = 2
    /\ \E i \in 1..2 : taskState[i] = "raised" /\ exc = taskOut[i].status
    /\ uFiltered = Zeros(Len(call.r), Len(call.th), Len(call.z))

\* C9: for a valid call the returned volume has the shape of the input field.
C9_ShapePreserved ==
    (pc = "returned" /\ ValidVolumeCall(call)) => uFiltered.shape = call.u.shape

\* C17: the volume returned does not depend on the values in r, only on len(r):
\* a call that differs only in the values of r binds the same arguments for every
\* task, with rPos the reference radius 0.986, and returns the same volume.
C17_RadiiIgnored ==
    \A kind \in RadiiKinds :
        LET other == WithRadii(call, kind)
        IN  /\ \A i \in 1..Len(taskState) : Scheduled(i) =>
                  /\ taskArgs[i].rPos = rRef
                  /\ taskArgs[i] = BoundArgs(other, i)
            /\ pc = "returned" =>
                  /\ \A i \in 1..Len(other.r) : PlanesOf(other, BoundArgs)[i].status = "ok"
                  /\ uFiltered = NpArray(PlanesOf(other, BoundArgs))

\* C17 witness: a valid call with r = (0.493, 0.986) has returned a volume whose
\* first plane is not the one that filtering with rPos = r[0] gives.
C17_Witness ==
    /\ pc = "returned"
    /\ ValidVolumeCall(call)
    /\ call.r = <<493, 986>>
    /\ uFiltered = NpArray(PlanesOf(WithRadii(call, "ref"), BoundArgs))
    /\ uFiltered # NpArray(PlanesOf(call, BoundArgsTrue))

\* C18: in a call of fourier2d with rect # 1, the flag is tested only inside the
\* plane filter of a scheduled plane, after its sample spacing and its cut-offs:
\* the call fails with SystemExit only through a plane filter that got as far as
\* the kernel; every plane filter that ran has failed, at the spacing (IndexError)
\* or at the cut-off (ZeroDivisionError) if these fail and at the test otherwise;
\* and with len(r) = 0 the call ends by returning the empty array.
C18_RectCheckedPerPlane ==
    (call.fn = "fourier2d" /\ call.rect # 1) =>
        /\ exc = "SystemExit" =>
              \E i \in 1..Len(taskState) :
                 taskState[i] = "raised" /\ taskOut[i].status = "SystemExit"
        /\ \A i \in 1..Len(taskState) : taskState[i] \in {"done", "raised"} =>
              /\ taskState[i] = "raised"
              /\ taskOut[i] =
                    IF ~GridDefined(call) THEN Raised("IndexError", "spacing")
                    ELSE IF ~call.np /\ (call.lambdaTh = 0 \/ call.lambdaZ = 0)
                    THEN Raised("ZeroDivisionError", "cutoff")
                    ELSE Raised("SystemExit", "kernel")
        /\ (Len(call.r) = 0 /\ pc \notin {"start", "parallel"}) =>
              /\ pc = "returned"
              /\ exc = ""
              /\ uFiltered = NpArray(<<>>)

\* C18 witness: fourier2d with rect = 0, an empty r and an otherwise valid grid
\* and field has returned an array of shape (0,).
C18_Witness ==
    /\ pc = "returned"
    /\ call.fn = "fourier2d"
    /\ call.rect = 0
    /\ call.r = <<>>
    /\ PositiveWidths(call) /\ GridDefined(call) /\ FieldMatchesGrid(call)
    /\ uFiltered.shape = <<0>>

(***************************************************************************)
(* Properties of the plane filters (PlaneSpec)                             *)
(***************************************************************************)
\* C5: a call with lambdaTh <= 0 or lambdaZ <= 0 fails before any transform is
\* computed and returns no plane.
C5_NonPositiveWidthFails ==
    (pc # "start" /\ ~PositiveWidths(call)) =>
        (pc = "failed" /\ taskOut[1].stage \in BeforeTransform)

\* C7: a call with len(th) < 2 or len(z) < 2 fails, with IndexError, at the sample
\* spacing: before the wavenumbers, the kernel and the transform.
C7_ShortGridFails ==
    (pc # "start" /\ ~GridDefined(call)) =>
        /\ pc = "failed"
        /\ exc = "IndexError"
        /\ taskOut[1].stage = "spacing"
        /\ taskOut[1].stage \in BeforeKernel

\* C7 witness: a box filter call with a one-point th and a proper z has failed.
C7_Witness ==
    /\ pc = "failed"
    /\ call.fn = "box2dThZ"
    /\ Len(call.th) = 1
    /\ Len(call.z) >= 2
    /\ PositiveWidths(call)

\* C10: on a defined grid and with positive widths the 2d kernel of each family
\* is 1 at index [0,0], and a valid call on a constant plane returns that plane.
C10_DcPreserved ==
    (GridDefined(call) /\ PositiveWidths(call)) =>
        /\ Kernel2d(call, call.rPos)[1][1] = One
        /\ (ValidPlaneCall(call) /\ ConstantPlane(call.u) /\ pc # "start") =>
              /\ pc = "returned"
              /\ taskOut[1].repr = "samples"
              /\ taskOut[1].v = SamplesOf(call.u)

\* C10 witness: a Gaussian filter call on a constant 4x3 plane, with widths that
\* damp every other mode, has returned.
C10_Witness ==
    /\ pc = "returned"
    /\ call.fn = "gauss2dThZ"
    /\ call.u.shape = <<4, 3>>
    /\ ConstantPlane(call.u)
    /\ ValidPlaneCall(call)
    /\ Kernel2d(call, call.rPos)[2][2] # One

\* C12: for the sharp cut-off filter on a fixed grid, for positive widths
\* lambda1 < lambda2 in either direction, the indices passed with lambda2 are among
\* those passed with lambda1; and on a fixed plane the total power of the output
\* with a larger lambdaTh, or a larger lambdaZ, is at most that of the output returned.
C12_WidthMonotone ==
    (call.fn = "fourier2dThZ" /\ GridDefined(call)) =>
        /\ \A l1, l2 \in Widths : (0 < l1 /\ l1 < l2) =>
              /\ Passed(StepKernelTh(call, l2)) \subseteq Passed(StepKernelTh(call, l1))
              /\ Passed(StepKernelZ(call, l2)) \subseteq Passed(StepKernelZ(call, l1))
        /\ (ValidPlaneCall(call) /\ pc = "returned") =>
              \A w \in Widths :
                 /\ w > call.lambdaTh =>
                       LET wider == WithWidths(call, w, call.lambdaZ)
                       IN  /\ wider.status = "ok" /\ wider.repr = "samples"
                           /\ PowerLeq(Power(wider.v, wider.shape),
                                       Power(taskOut[1].v, taskOut[1].shape), wider.shape)
                 /\ w > call.lambdaZ =>
                       LET wider == WithWidths(call, call.lambdaTh, w)
                       IN  /\ wider.status = "ok" /\ wider.repr = "samples"
                           /\ PowerLeq(Power(wider.v, wider.shape),
                                       Power(taskOut[1].v, taskOut[1].shape), wider.shape)

\* C12 witness: a plane with every mode was filtered and returned, and a larger
\* lambdaTh passes strictly fewer azimuthal indices and leaves strictly less power.
C12_Witness ==
    /\ pc = "returned"
    /\ call.fn = "fourier2dThZ"
    /\ ValidPlaneCall(call)
    /\ call.u.shape = <<4, 3>>
    /\ ~ConstantPlane(call.u)
    /\ \E w \in Widths :
          /\ w > call.lambdaTh
          /\ Passed(StepKernelTh(call, w)) # Passed(StepKernelTh(call, call.lambdaTh))
          /\ LET wider == WithWidths(call, w, call.lambdaZ)
             IN  ~PowerLeq(Power(taskOut[1].v, taskOut[1].shape),
                           Power(wider.v, wider.shape), wider.shape)

\* C14: for the sharp cut-off and Gaussian filters, on a grid of any length
\* (even or odd) and with positive widths, each 1d kernel takes the same value at a
\* wavenumber and at its negative (index i and index N-i, 0 < i < N), and each of
\* its values is a non-negative real.
C14_KernelEven ==
    (call.fn \in {"fourier2dThZ", "gauss2dThZ"} /\ GridDefined(call) /\ PositiveWidths(call)) =>
        LET gTh == Kernel1dTh(call, call.rPos)
            gZ == Kernel1dZ(call, call.rPos)
        IN  /\ EvenKernel(gTh)
            /\ EvenKernel(gZ)
            /\ \A i \in 1..Len(gTh) : NonNegativeValue(gTh[i])
            /\ \A j \in 1..Len(gZ) : NonNegativeValue(gZ[j])

\* C14 witness: a Gaussian filter call on a grid of even length along th and odd
\* length along z has returned; its kernels damp the non-zero wavenumbers.
C14_Witness ==
    /\ pc = "returned"
    /\ call.fn = "gauss2dThZ"
    /\ PositiveWidths(call)
    /\ Len(call.th) = 4
    /\ Len(call.z) = 3
    /\ Kernel1dZ(call, call.rPos)[2] = Kernel1dZ(call, call.rPos)[3]
    /\ Kernel1dZ(call, call.rPos)[2] # One
    /\ Kernel1dTh(call, call.rPos)[2] = Kernel1dTh(call, call.rPos)[4]
    /\ Kernel1dTh(call, call.rPos)[2] # Kernel1dTh(call, call.rPos)[3]

\* C15: in the sharp cut-off filter, with positive widths, the 1d kernel at an
\* index is 1 when the angular wavenumber there is at most pi/lambda in absolute
\* value, the equality included, and 0 otherwise: mode m of an axis of N samples
\* of spacing d passes iff 2 |m| lambda <= N d.
C15_InclusiveStep ==
    (call.fn = "fourier2dThZ" /\ GridDefined(call) /\ PositiveWidths(call)) =>
        LET sp == Spacing(call.th, call.z, call.rPos)
            nth == Len(call.th)
            nz == Len(call.z)
        IN  /\ \A i \in 1..nth :
                  Kernel1dTh(call, call.rPos)[i] =
                      IF WithinCutoff(ModeAt(nth, i), call.lambdaTh, nth, sp.deltaTh)
                      THEN One ELSE Zero
            /\ \A j \in 1..nz :
                  Kernel1dZ(call, call.rPos)[j] =
                      IF WithinCutoff(ModeAt(nz, j), call.lambdaZ, nz, sp.deltaZ)
                      THEN One ELSE Zero

\* C15 witness: a sharp cut-off call has returned whose azimuthal modes 1 and -1
\* lie on the cut-off and are passed, while the mode beyond it is not.
C15_Witness ==
    /\ pc = "returned"
    /\ call.fn = "fourier2dThZ"
    /\ ValidPlaneCall(call)
    /\ Len(call.th) = 4
    /\ OnCutoff(1, call.lambdaTh, 4, Spacing(call.th, call.z, call.rPos).deltaTh)
    /\ Kernel1dTh(call, call.rPos) = <<One, One, Zero, One>>

\* C16: on a defined grid the 2d kernel of each family has the entry
\* gTh[i] * gZ[j] at [i, j], for every azimuthal index i and axial index j; for the
\* sharp cut-off family the 2d mode (i, j) is passed iff gTh passes i and gZ
\* passes j; and the spectrum of a returned plane carries these entries.
C16_OuterProduct ==
    (GridDefined(call) /\ PositiveWidths(call)) =>
        LET gTh == Kernel1dTh(call, call.rPos)
            gZ == Kernel1dZ(call, call.rPos)
            g2d == Kernel2d(call, call.rPos)
        IN  /\ Len(g2d) = Len(call.th)
            /\ \A i \in 1..Len(call.th) :
                  /\ Len(g2d[i]) = Len(call.z)
                  /\ \A j \in 1..Len(call.z) :
                        /\ g2d[i][j] = KMul(gTh[i], gZ[j])
                        /\ call.fn = "fourier2dThZ" =>
                              (g2d[i][j] = One <=> (gTh[i] = One /\ gZ[j] = One))
                        /\ (pc = "returned" /\ taskOut[1].repr = "ifft2"
                                /\ taskOut[1].v[i][j].x # CZero) =>
                              taskOut[1].v[i][j].g = KMul(gTh[i], gZ[j])

\* C16 witness: a box filter call on a 4 x 3 plane has returned; the kernel entry at
\* [1, 1] is the product of two different sinc values, neither of them 1, and
\* the returned spectrum carries it.
C16_Witness ==
    /\ pc = "returned"
    /\ call.fn = "box2dThZ"
    /\ ValidPlaneCall(call)
    /\ call.u.shape = <<4, 3>>
    /\ LET gTh == Kernel1dTh(call, call.rPos)
           gZ == Kernel1dZ(call, call.rPos)
       IN  /\ gTh[2] \notin {Zero, One}
           /\ gZ[2] \notin {Zero, One}
           /\ gTh[2] # gZ[2]
           /\ taskOut[1].repr = "ifft2"
           /\ taskOut[1].v[2][2] = [x |-> Fft2(call.u, 12)[2][2],
                                    g |-> [fn |-> "prod", l |-> gTh[2], r |-> gZ[2]]]

\* C19: in the sharp cut-off filter with positive widths, when lambdaTh is at most
\* the azimuthal sample spacing (th[1]-th[0])*rPos and lambdaZ at most the axial
\* sample spacing z[1]-z[0], every kernel entry is 1, the Nyquist index included,
\* and a valid call returns its plane unchanged; when a width exceeds the sample
\* spacing of an axis of even length, the kernel of that axis is 0 at the Nyquist
\* index and the returned plane has no Nyquist mode along that axis.
C19_Nyquist ==
    (call.fn = "fourier2dThZ" /\ GridDefined(call) /\ PositiveWidths(call)) =>
        LET nth == Len(call.th)
            nz == Len(call.z)
            spacingTh == (call.th[2] - call.th[1]) * call.rPos
            spacingZ == call.z[2] - call.z[1]
            g2d == Kernel2d(call, call.rPos)
            returned == ValidPlaneCall(call) /\ pc = "returned"
        IN  /\ (call.lambdaTh <= spacingTh /\ call.lambdaZ <= spacingZ) =>
                  /\ \A i \in 1..nth : \A j \in 1..nz : g2d[i][j] = One
                  /\ (ValidPlaneCall(call) /\ pc # "start") =>
                        /\ pc = "returned"
                        /\ taskOut[1].v = SamplesOf(call.u)
            /\ (call.lambdaTh > spacingTh /\ nth % 2 = 0) =>
                  /\ Kernel1dTh(call, call.rPos)[(nth \div 2) + 1] = Zero
                  /\ returned => \A j \in 1..nz :
                        Fft2(ScaledPlane(taskOut[1]), RingOrder(nth, nz))[(nth \div 2) + 1][j]
                            = CZero
            /\ (call.lambdaZ > spacingZ /\ nz % 2 = 0) =>
                  /\ Kernel1dZ(call, call.rPos)[(nz \div 2) + 1] = Zero
                  /\ returned => \A i \in 1..nth :
                        Fft2(ScaledPlane(taskOut[1]), RingOrder(nth, nz))[i][(nz \div 2) + 1]
                            = CZero

\* C19 witness: a plane of 4 x 4 samples with a Nyquist mode along both axes came
\* back unchanged from a call with lambdaTh equal to the azimuthal sample spacing
\* and lambdaZ below the axial one.
C19_Witness ==
    /\ pc = "returned"
    /\ call.fn = "fourier2dThZ"
    /\ ValidPlaneCall(call)
    /\ call.u.shape = <<4, 4>>
    /\ call.lambdaTh = (call.th[2] - call.th[1]) * call.rPos
    /\ call.lambdaZ < call.z[2] - call.z[1]
    /\ Fft2(call.u, 12)[3][1] # CZero
    /\ Fft2(call.u, 12)[1][3] # CZero
    /\ taskOut[1].v = SamplesOf(call.u)

\* C20: in the box filter with positive widths, the 1d kernel of an axis of N
\* samples of spacing d is 0 at exactly the indices of the mode numbers m # 0 for
\* which m lambda is a multiple of N d; with lambda = N d it is 0 at every index
\* but the first, and a valid call returns the plane averaged along that axis
\* (and filtered along the other).
C20_BoxZeros ==
    (call.fn = "box2dThZ" /\ GridDefined(call) /\ PositiveWidths(call)) =>
        LET nth == Len(call.th)
            nz == Len(call.z)
            lengthTh == nth * (call.th[2] - call.th[1]) * call.rPos
            lengthZ == nz * (call.z[2] - call.z[1])
            gTh == Kernel1dTh(call, call.rPos)
            gZ == Kernel1dZ(call, call.rPos)
            returned == ValidPlaneCall(call) /\ pc = "returned"
        IN  /\ \A i \in 1..nth :
                  gTh[i] = Zero <=>
                     (ModeAt(nth, i) # 0 /\ (Abs(ModeAt(nth, i)) * call.lambdaTh) % lengthTh = 0)
            /\ \A j \in 1..nz :
                  gZ[j] = Zero <=>
                     (ModeAt(nz, j) # 0 /\ (Abs(ModeAt(nz, j)) * call.lambdaZ) % lengthZ = 0)
            /\ call.lambdaTh = lengthTh =>
                  /\ \A i \in 2..nth : gTh[i] = Zero
                  /\ returned => AveragedAlongTh(taskOut[1], call.u, gZ)
            /\ call.lambdaZ = lengthZ =>
                  /\ \A j \in 2..nz : gZ[j] = Zero
                  /\ returned => AveragedAlongZ(taskOut[1], call.u, gTh)

\* C20 witness: a box filter call with lambdaTh the length of the th axis, on a
\* 4 x 3 plane that varies along both axes, has returned a plane that is not exact:
\* the average along th, filtered along z.
C20_Witness ==
    /\ pc = "returned"
    /\ call.fn = "box2dThZ"
    /\ ValidPlaneCall(call)
    /\ call.u.shape = <<4, 3>>
    /\ ~ConstantPlane(call.u)
    /\ call.lambdaTh = 4 * (call.th[2] - call.th[1]) * call.rPos
    /\ Kernel1dTh(call, call.rPos) = <<One, Zero, Zero, Zero>>
    /\ taskOut[1].repr = "ifft2"
    /\ taskOut[1].v[1][2].x # CZero
    /\ Fft2(call.u, 12)[2][1] # CZero

(***************************************************************************)
(* Properties of the sharp cut-off filter on a sinusoid (SineSpec)          *)
(***************************************************************************)
\* C11 as stated: on the 8 x 8 grid with rPos = 1.0, a sinusoid at the lowest
\* non-zero azimuthal wavenumber is returned unchanged when lambdaTh is just above
\* the period of that wavenumber, and as zero when lambdaTh is just below it.
C11_PassesAbovePeriod ==
    (pc # "start" /\ LowestAzimuthal(call.u)) =>
        /\ call.lambdaTh = Circumference(call) + 1 =>
              pc = "returned" /\ taskOut[1].v = RingSamplesOf(call.u, 8)
        /\ call.lambdaTh = Circumference(call) - 1 =>
              pc = "returned" /\ taskOut[1].v = ZeroSamples(call.u.shape)

\* C11 amended: the sinusoid is returned unchanged when lambdaTh is at most half
\* the period of that wavenumber (just below half the period, or equal to it), and
\* as zero when lambdaTh is above half the period (just above half the period,
\* and just below or just above the whole period).
C11_PassesBelowHalfPeriod ==
    (pc # "start" /\ LowestAzimuthal(call.u)) =>
        /\ pc = "returned"
        /\ taskOut[1].repr = "samples"
        /\ 2 * call.lambdaTh <= Circumference(call) =>
              taskOut[1].v = RingSamplesOf(call.u, 8)
        /\ 2 * call.lambdaTh > Circumference(call) =>
              taskOut[1].v = ZeroSamples(call.u.shape)

\* C11 witness: the sinusoid came back unchanged, and not zero, from a call with
\* lambdaTh just below half the period.
C11_Witness ==
    /\ pc = "returned"
    /\ LowestAzimuthal(call.u)
    /\ 2 * call.lambdaTh = Circumference(call) - 2
    /\ taskOut[1].v = RingSamplesOf(call.u, 8)
    /\ taskOut[1].v # ZeroSamples(call.u.shape)

\* C13: the kernel of the sharp cut-off filter has only the entries 0 and 1; a
\* plane whose non-zero Fourier modes are all passed is returned unchanged; and
\* filtering a returned plane again, with the same widths and grid, returns it
\* unchanged (the filter being linear, D times the plane is filtered and
\* compared with D times the plane, D the common denominator of its samples).
C13_Idempotent ==
    pc # "start" =>
        /\ pc = "returned"
        /\ taskOut[1].repr = "samples"
        /\ \A a \in 1..Len(call.th) : \A b \in 1..Len(call.z) :
              Kernel2d(call, call.rPos)[a][b] \in {Zero, One}
        /\ BandLimited(call) => taskOut[1].v = RingSamplesOf(call.u, 8)
        /\ LET D == 2 * Len(call.th) * Len(call.z)
               twice == fourier2dThZ(ScaledPlane(taskOut[1]), call.rPos, call.lambdaTh,
                                     call.lambdaZ, call.th, call.z, call.rect, call.np)
           IN  /\ twice.status = "ok"
               /\ twice.repr = "samples"
               /\ twice.v = [a \in 1..Len(call.th) |-> [b \in 1..Len(call.z) |->
                                ScaledSample(taskOut[1].v[a][b], D)]]

\* C13 witness: a sinusoid of mode 1 along th and along z, below a cut-off that
\* removes the higher azimuthal modes, came back unchanged and not zero.
C13_Witness ==
    /\ pc = "returned"
    /\ BandLimited(call)
    /\ call.u = SinePlane(1, 1, 1, 0)
    /\ Kernel2d(call, call.rPos)[5][1] = Zero
    /\ taskOut[1].v = RingSamplesOf(call.u, 8)
    /\ taskOut[1].v # ZeroSamples(call.u.shape)

====
